---- MODULE Spec2Model ----
(***************************************************************************)
(* A model of csv_to_excel_converter.py: one run of the command line tool. *)
(*                                                                         *)
(* The run is a straight line: main() parses the arguments, checks the     *)
(* input path and the output suffix, and calls convert_csv_to_excel(),     *)
(* which reads the CSV, calls clean_dataframe() (column names, fillna,     *)
(* per-column to_datetime), applies the optional rename and writes the     *)
(* workbook.  The inputs of a run (argv, the file behind the input path)   *)
(* are chosen in the initial state; whether the write succeeds is chosen   *)
(* when the write happens.                                                 *)
(*                                                                         *)
(* Text (column names, the rename string) is a sequence of one-character   *)
(* strings.  A cell is a record [kind, v]: "nan" is pandas' missing value, *)
(* "str" a string, "ts" a Timestamp, "nat" pandas' not-a-time.  The tables *)
(* of the model are made of object columns (strings and missing values);   *)
(* columns read_csv types as numbers are not modelled.                     *)
(***************************************************************************)
EXTENDS Integers, Sequences, FiniteSets, TLC

VARIABLES
    inp,            \* the run's inputs: argv and the file behind the input path
    pc,             \* the statement the run is at
    columns,        \* df.columns
    data,           \* df's cells, one sequence of cells per column
    dtype,          \* per column: "object" or "datetime64"
    ci,             \* position of clean_dataframe's loop over df.columns
    cleaned,        \* df.columns as clean_dataframe left them (history)
    filled,         \* df's cells right after df.fillna("") (history)
    loaded,         \* pd.read_csv returned a DataFrame
    writerInvoked,  \* df.to_excel was called
    written,        \* df.to_excel returned
    io,             \* file-system operations so far, in order
    errLines,       \* number of logger.error lines so far
    failure,        \* what ended the run, "none" while it has not failed
    exitCode        \* the process's exit status, -1 while it runs

vars == <<inp, pc, columns, data, dtype, ci, cleaned, filled, loaded,
          writerInvoked, written, io, errLines, failure, exitCode>>

-----------------------------------------------------------------------------
(* Bounds of the model. *)

MaxNameLen == 3

MaxCols == 2

MaxRows == 2

MaxSpecLen == 4

MaxPairs == 2

-----------------------------------------------------------------------------
(* Text. *)

SeqsUpTo(S, n) == UNION {[1..k -> S] : k \in 0..n}

\* str.isspace() characters that occur in the model's alphabets.
Whitespace == {" ", "\t", "\n"}

\* One character of str.lower().
LowerChar(c) ==
    CASE c = "A" -> "a"
      [] c = "B" -> "b"
      [] c = "N" -> "n"
      [] OTHER -> c

\* str.lower()
Lower(s) == [i \in 1..Len(s) |-> LowerChar(s[i])]

RECURSIVE LStrip(_)
LStrip(s) ==
    IF s # <<>> /\ Head(s) \in Whitespace THEN LStrip(Tail(s)) ELSE s

RECURSIVE RStrip(_)
RStrip(s) ==
    IF s # <<>> /\ s[Len(s)] \in Whitespace
    THEN RStrip(SubSeq(s, 1, Len(s) - 1))
    ELSE s

\* str.strip()
Strip(s) == RStrip(LStrip(s))

\* str.replace(old, new) for single characters.
Replace(s, old, new) == [i \in 1..Len(s) |-> IF s[i] = old THEN new ELSE s[i]]

\* str.split(sep) for a single-character separator: always at least one part.
RECURSIVE Split(_, _)
Split(s, sep) ==
    IF \E i \in 1..Len(s) : s[i] = sep
    THEN LET i == CHOOSE j \in 1..Len(s) :
                    s[j] = sep /\ \A k \in 1..(j - 1) : s[k] # sep
         IN  <<SubSeq(s, 1, i - 1)>> \o Split(SubSeq(s, i + 1, Len(s)), sep)
    ELSE <<s>>

-----------------------------------------------------------------------------
(* clean_dataframe: column names. *)

ReplaceSpacesSwapped(s) == Replace(s, "_", " ")

\* .str.replace(" ", "_")
ReplaceSpaces(s) == Replace(s, " ", "_")

\* df.columns.str.strip().str.lower().str.replace(" ", "_"), one name.
CleanName(n) == ReplaceSpaces(Lower(Strip(n)))

CleanColumns(cs) == [i \in 1..Len(cs) |-> CleanName(cs[i])]

-----------------------------------------------------------------------------
(* clean_dataframe: cells. *)

NaN == [kind |-> "nan", v |-> ""]

NaT == [kind |-> "nat", v |-> ""]

Str(v) == [kind |-> "str", v |-> v]

Timestamp(v) == [kind |-> "ts", v |-> v]

\* The strings pd.to_datetime parses as a date.
DateStrings == {"2020-01-01", "2020-02-02"}

\* Strings pd.to_datetime raises ValueError on.
TextStrings == {"Alice"}

\* pd.isna
IsMissing(c) == c.kind \in {"nan", "nat"}

\* df.fillna(""), one cell.
FillCell(c) == IF c.kind = "nan" THEN Str("") ELSE c

\* df.fillna("")
FillNa(d) == [i \in 1..Len(d) |-> [r \in 1..Len(d[i]) |-> FillCell(d[i][r])]]

\* pd.to_datetime raises on this cell: a string that is neither a date nor empty.
CellRaises(c) == c.kind = "str" /\ c.v \notin DateStrings /\ c.v # ""

\* pd.to_datetime, one cell that does not raise: the empty string and the
\* missing values become NaT.
ParseCell(c) ==
    IF c.kind = "str" /\ c.v \in DateStrings THEN Timestamp(c.v)
    ELSE IF c.kind = "ts" THEN c
    ELSE NaT

\* df[col] selects more than one column: DataFrame, not Series.
SelectsFrame(cs, col) == Cardinality({j \in 1..Len(cs) : cs[j] = col}) > 1

\* pd.to_datetime(df[col]) raises ValueError: df[col] is a DataFrame without
\* year/month/day columns (a duplicated name), or a cell does not parse.
ToDatetimeRaises(cs, d, i) ==
    \/ SelectsFrame(cs, cs[i])
    \/ \E r \in 1..Len(d[i]) : CellRaises(d[i][r])

\* pd.to_datetime(df[col]) for a Series that parses.
ToDatetime(col) == [r \in 1..Len(col) |-> ParseCell(col[r])]

-----------------------------------------------------------------------------
(* parse_rename_columns *)

UnpacksLoose(parts) == Len(parts) >= 2

\* old, new = pair.split(":") succeeds: exactly two parts.
Unpacks(parts) == Len(parts) = 2

RenameKeyNoLower(old) == Strip(old)

\* old.strip().lower()
RenameKey(old) == Lower(Strip(old))

\* new.strip()
RenameValue(new) == Strip(new)

\* `if rename_str:` -- None and "" are both falsy.
Truthy(given, s) == given /\ s # <<>>

\* rename_str.split(",")
Pairs(s) == Split(s, ",")

\* parse_rename_columns returns (no pair raises ValueError).
ParseOk(s) == \A k \in 1..Len(Pairs(s)) : Unpacks(Split(Pairs(s)[k], ":"))

\* The dictionary after the first k pairs; a later pair overwrites an earlier key.
RECURSIVE RenameDict(_, _)
RenameDict(ps, k) ==
    IF k = 0 THEN <<>>
    ELSE LET parts == Split(ps[k], ":")
             key   == RenameKey(parts[1])
             prev  == RenameDict(ps, k - 1)
         IN  [x \in (DOMAIN prev) \cup {key} |->
                 IF x = key THEN RenameValue(parts[2]) ELSE prev[x]]

\* parse_rename_columns(rename_str), when it returns.
ParseRenameColumns(s) == RenameDict(Pairs(s), Len(Pairs(s)))

\* df.rename(columns=rename_dict)
RenameCols(cs, dict) ==
    [i \in 1..Len(cs) |-> IF cs[i] \in DOMAIN dict THEN dict[cs[i]] ELSE cs[i]]

-----------------------------------------------------------------------------
(* main: the checks before the conversion. *)

SuffixOkAny(suffix) == TRUE

\* not (output_path.suffix != ".xlsx")
SuffixOk(suffix) == suffix = ".xlsx"

-----------------------------------------------------------------------------
(* The inputs of a run. *)

\* What is behind the input path when pd.read_csv opens it: "gone" (removed
\* since main's check), "zero" (no columns to parse), "malformed" (read_csv
\* raises another exception) or "table" (a header and zero or more rows).
NoTable(kind) == [kind |-> kind, header |-> <<>>, cols |-> <<>>]

Table(header, cols) == [kind |-> "table", header |-> header, cols |-> cols]

\* argv: "ok" (parse_args returns), "usage" (a required option is missing or an
\* option is unknown), "help" (-h).
Input(argv, exists, suffix, given, rs, file) ==
    [argv |-> argv, input_exists |-> exists, out_suffix |-> suffix,
     rename_given |-> given, rename_str |-> rs, file |-> file]

\* The cells pd.read_csv produces in an object column: a string or NaN (an
\* empty field is read as NaN).
RawCells == {NaN} \cup {Str(v) : v \in DateStrings \cup TextStrings}

\* Headers as read_csv returns them: non-empty, pairwise distinct names
\* (read_csv renames an empty or repeated header name).
Names(chars, n) == SeqsUpTo(chars, n) \ {<<>>}

Distinct(cs) == \A i, j \in 1..Len(cs) : i # j => cs[i] # cs[j]

Headers(names, n) == {h \in SeqsUpTo(names, n) : h # <<>> /\ Distinct(h)}

\* A column of one text cell per header name.
TextCols(header) == [i \in 1..Len(header) |-> <<Str("Alice")>>]

\* The name of column i in the tables whose names do not matter.
PlainName(i) == [j \in 1..i |-> "c"]

PlainHeader(n) == [i \in 1..n |-> PlainName(i)]

\* Rename strings as typed: every string over these characters.
SpecChars == {"a", ":", ",", " "}

RawSpecs(maxlen) == SeqsUpTo(SpecChars, maxlen)

CLIFiles ==
    {NoTable("gone"), NoTable("zero"), NoTable("malformed"),
     Table(<<<<"a">>>>, <<<<>>>>), Table(<<<<"a">>>>, <<<<Str("Alice")>>>>)}

ArgvErrors ==
    {Input(a, TRUE, ".xlsx", FALSE, <<>>, NoTable("zero")) : a \in {"usage", "help"}}

OkInputs(givens, specs, files) ==
    {Input("ok", e, x, g, rs, f) :
        e \in BOOLEAN, x \in {".xlsx", ".csv"}, g \in givens, rs \in specs, f \in files}

\* Runs through every exit of the program, with a handful of rename strings.
EdgeInputs ==
    ArgvErrors
    \cup OkInputs({FALSE}, {<<>>}, CLIFiles)
    \cup OkInputs({TRUE}, {<<>>, <<"a">>, <<"a", ":", "a">>}, CLIFiles)

\* Every rename string of up to maxlen characters, every exit.
CLIInputs(maxlen) ==
    ArgvErrors
    \cup OkInputs({FALSE}, {<<>>}, CLIFiles)
    \cup OkInputs({TRUE}, RawSpecs(maxlen), CLIFiles)

Run(given, rs, file) == Input("ok", TRUE, ".xlsx", given, rs, file)

\* Tables of up to maxc columns and maxr rows of raw cells.
CellTables(maxc, maxr) ==
    UNION {{Table(PlainHeader(nc), cols) : cols \in [1..nc -> [1..nr -> RawCells]]} :
              nc \in 1..maxc, nr \in 0..maxr}

CoerceInputs(maxc, maxr) ==
    EdgeInputs \cup {Run(FALSE, <<>>, t) : t \in CellTables(maxc, maxr)}

\* Headers of up to maxc names: any name of up to maxlen characters in one
\* place, plain names in the others.
NameChars == {"A", "a", " ", "_", "\t"}

NameHeaders(maxc, maxlen) ==
    UNION {{[PlainHeader(nc) EXCEPT ![k] = n] :
               k \in 1..nc, n \in Names(NameChars, maxlen)} : nc \in 1..maxc}

NameTables(maxc, maxlen) ==
    {Table(h, TextCols(h)) : h \in {x \in NameHeaders(maxc, maxlen) : Distinct(x)}}

CleanInputs(maxc, maxlen) ==
    EdgeInputs \cup {Run(FALSE, <<>>, t) : t \in NameTables(maxc, maxlen)}

\* Well-formed rename strings of up to maxp pairs old:new.
OldTokens == {<<"a">>, <<" ", "A", " ">>, <<"b">>}

NewTokens == {<<"N">>, <<" ", "b">>, <<"a">>}

PairStrings == {old \o <<":">> \o new : old \in OldTokens, new \in NewTokens}

RECURSIVE JoinComma(_)
JoinComma(ps) ==
    IF ps = <<>> THEN <<>>
    ELSE IF Len(ps) = 1 THEN ps[1]
    ELSE ps[1] \o <<",">> \o JoinComma(Tail(ps))

PairSpecs(maxp) == {JoinComma(ps) : ps \in SeqsUpTo(PairStrings, maxp)}

\* Headers of up to maxc one-letter names.
RenameTables(maxc) ==
    {Table(h, TextCols(h)) : h \in Headers(Names({"a", "A", "b"}, 1), maxc)}

RenameInputs(maxc, maxp) ==
    EdgeInputs
    \cup {Run(TRUE, rs, t) : rs \in PairSpecs(maxp), t \in RenameTables(maxc)}

-----------------------------------------------------------------------------
(* The run. *)

InitWith(inputs) ==
    /\ inp \in inputs
    /\ pc = "parse_args"
    /\ columns = <<>>
    /\ data = <<>>
    /\ dtype = <<>>
    /\ ci = 0
    /\ cleaned = <<>>
    /\ filled = <<>>
    /\ loaded = FALSE
    /\ writerInvoked = FALSE
    /\ written = FALSE
    /\ io = <<>>
    /\ errLines = 0
    /\ failure = "none"
    /\ exitCode = -1

Init == InitWith(CLIInputs(MaxSpecLen))

InitCoerce == InitWith(CoerceInputs(MaxCols, MaxRows))

InitClean == InitWith(CleanInputs(MaxCols, MaxNameLen))

InitRename == InitWith(RenameInputs(MaxCols, MaxPairs))

table == <<columns, data, dtype, ci, cleaned, filled>>

\* sys.exit(code), or the interpreter ending the process.
Exit(code, why) ==
    /\ pc' = "exit"
    /\ exitCode' = code
    /\ failure' = why

\* logger.error(...) followed by sys.exit(1).
ErrorExit(why) ==
    /\ errLines' = errLines + 1
    /\ Exit(1, why)

\* parser.parse_args(): argparse prints the usage and exits with status 2.
ArgsUsageError ==
    /\ pc = "parse_args"
    /\ inp.argv = "usage"
    /\ Exit(2, "Usage")
    /\ UNCHANGED <<inp, table, loaded, writerInvoked, written, io, errLines>>

\* parser.parse_args(): -h prints the help and exits with status 0.
ArgsHelp ==
    /\ pc = "parse_args"
    /\ inp.argv = "help"
    /\ Exit(0, "none")
    /\ UNCHANGED <<inp, table, loaded, writerInvoked, written, io, errLines>>

ArgsParsed ==
    /\ pc = "parse_args"
    /\ inp.argv = "ok"
    /\ pc' = "check_input"
    /\ UNCHANGED <<inp, table, loaded, writerInvoked, written, io, errLines,
                   failure, exitCode>>

\* if not input_path.exists(): logger.error(...); sys.exit(1)
CheckInputMissing ==
    /\ pc = "check_input"
    /\ ~inp.input_exists
    /\ io' = Append(io, "stat_input")
    /\ ErrorExit("NotFound")
    /\ UNCHANGED <<inp, table, loaded, writerInvoked, written>>

CheckInputExists ==
    /\ pc = "check_input"
    /\ inp.input_exists
    /\ io' = Append(io, "stat_input")
    /\ pc' = "check_suffix"
    /\ UNCHANGED <<inp, table, loaded, writerInvoked, written, errLines,
                   failure, exitCode>>

\* if output_path.suffix != ".xlsx": logger.error(...); sys.exit(1)
CheckSuffixBad ==
    /\ pc = "check_suffix"
    /\ ~SuffixOk(inp.out_suffix)
    /\ ErrorExit("BadExtension")
    /\ UNCHANGED <<inp, table, loaded, writerInvoked, written, io>>

CheckSuffixGood ==
    /\ pc = "check_suffix"
    /\ SuffixOk(inp.out_suffix)
    /\ pc' = "read_csv"
    /\ UNCHANGED <<inp, table, loaded, writerInvoked, written, io, errLines,
                   failure, exitCode>>

\* The except clause pd.read_csv's exception reaches.
ReadError(kind) ==
    CASE kind = "gone" -> "NotFound"
      [] kind = "zero" -> "EmptyData"
      [] OTHER -> "ParseError"

ReadCsvFallsBack ==
    /\ pc = "read_csv"
    /\ inp.file.kind # "table"
    /\ io' = Append(io, "read_input")
    /\ errLines' = errLines + 1
    /\ columns' = <<>>
    /\ data' = <<>>
    /\ dtype' = <<>>
    /\ pc' = "clean_names"
    /\ UNCHANGED <<inp, ci, cleaned, filled, loaded, writerInvoked, written,
                   failure, exitCode>>

\* df = pd.read_csv(input_file) raises: logger.error(...); sys.exit(1)
ReadCsvFails ==
    /\ pc = "read_csv"
    /\ inp.file.kind # "table"
    /\ io' = Append(io, "read_input")
    /\ ErrorExit(ReadError(inp.file.kind))
    /\ UNCHANGED <<inp, table, loaded, writerInvoked, written>>

\* df = pd.read_csv(input_file) returns; a header without rows is a DataFrame
\* with columns and no rows.
ReadCsv ==
    /\ pc = "read_csv"
    /\ inp.file.kind = "table"
    /\ io' = Append(io, "read_input")
    /\ columns' = inp.file.header
    /\ data' = inp.file.cols
    /\ dtype' = [i \in 1..Len(inp.file.header) |-> "object"]
    /\ loaded' = TRUE
    /\ pc' = "clean_names"
    /\ UNCHANGED <<inp, ci, cleaned, filled, writerInvoked, written, errLines,
                   failure, exitCode>>

\* df.columns = df.columns.str.strip().str.lower().str.replace(" ", "_")
CleanNames ==
    /\ pc = "clean_names"
    /\ columns' = CleanColumns(columns)
    /\ cleaned' = CleanColumns(columns)
    /\ pc' = "fillna"
    /\ UNCHANGED <<inp, data, dtype, ci, filled, loaded, writerInvoked, written,
                   io, errLines, failure, exitCode>>

\* df = df.fillna("")
FillMissing ==
    /\ pc = "fillna"
    /\ data' = FillNa(data)
    /\ filled' = FillNa(data)
    /\ ci' = 1
    /\ pc' = "to_datetime"
    /\ UNCHANGED <<inp, columns, dtype, cleaned, loaded, writerInvoked, written,
                   io, errLines, failure, exitCode>>

\* df[col] = pd.to_datetime(df[col])
CoerceColumn ==
    /\ pc = "to_datetime"
    /\ ci <= Len(columns)
    /\ ~ToDatetimeRaises(columns, data, ci)
    /\ data' = [data EXCEPT ![ci] = ToDatetime(data[ci])]
    /\ dtype' = [dtype EXCEPT ![ci] = "datetime64"]
    /\ ci' = ci + 1
    /\ UNCHANGED <<inp, pc, columns, cleaned, filled, loaded, writerInvoked,
                   written, io, errLines, failure, exitCode>>

\* except (ValueError, TypeError): continue
SkipColumn ==
    /\ pc = "to_datetime"
    /\ ci <= Len(columns)
    /\ ToDatetimeRaises(columns, data, ci)
    /\ ci' = ci + 1
    /\ UNCHANGED <<inp, pc, columns, data, dtype, cleaned, filled, loaded,
                   writerInvoked, written, io, errLines, failure, exitCode>>

\* return df
CleanReturns ==
    /\ pc = "to_datetime"
    /\ ci > Len(columns)
    /\ pc' = "rename"
    /\ UNCHANGED <<inp, table, loaded, writerInvoked, written, io, errLines,
                   failure, exitCode>>

\* if rename_str: is false
RenameSkipped ==
    /\ pc = "rename"
    /\ ~Truthy(inp.rename_given, inp.rename_str)
    /\ pc' = "to_excel"
    /\ UNCHANGED <<inp, table, loaded, writerInvoked, written, io, errLines,
                   failure, exitCode>>

\* parse_rename_columns raises ValueError; nothing catches it: the interpreter
\* prints the traceback and the process ends with status 1.
RenameRaises ==
    /\ pc = "rename"
    /\ Truthy(inp.rename_given, inp.rename_str)
    /\ ~ParseOk(inp.rename_str)
    /\ Exit(1, "FormatError")
    /\ UNCHANGED <<inp, table, loaded, writerInvoked, written, io, errLines>>

\* df = df.rename(columns=parse_rename_columns(rename_str))
RenameColumns ==
    /\ pc = "rename"
    /\ Truthy(inp.rename_given, inp.rename_str)
    /\ ParseOk(inp.rename_str)
    /\ columns' = RenameCols(columns, ParseRenameColumns(inp.rename_str))
    /\ pc' = "to_excel"
    /\ UNCHANGED <<inp, data, dtype, ci, cleaned, filled, loaded, writerInvoked,
                   written, io, errLines, failure, exitCode>>

WriteExcelFailsQuietly ==
    /\ pc = "to_excel"
    /\ writerInvoked' = TRUE
    /\ io' = Append(io, "write_output")
    /\ errLines' = errLines + 1
    /\ Exit(0, "WriteError")
    /\ UNCHANGED <<inp, table, loaded, written>>

\* df.to_excel(...) raises: logger.error(...); sys.exit(1)
WriteExcelFails ==
    /\ pc = "to_excel"
    /\ writerInvoked' = TRUE
    /\ io' = Append(io, "write_output")
    /\ ErrorExit("WriteError")
    /\ UNCHANGED <<inp, table, loaded, written>>

\* df.to_excel(...) returns; main returns and the process ends with status 0.
WriteExcel ==
    /\ pc = "to_excel"
    /\ writerInvoked' = TRUE
    /\ written' = TRUE
    /\ io' = Append(io, "write_output")
    /\ Exit(0, "none")
    /\ UNCHANGED <<inp, table, loaded, errLines>>

Next ==
    \/ ArgsUsageError
    \/ ArgsHelp
    \/ ArgsParsed
    \/ CheckInputMissing
    \/ CheckInputExists
    \/ CheckSuffixBad
    \/ CheckSuffixGood
    \/ ReadCsvFails
    \/ ReadCsv
    \/ CleanNames
    \/ FillMissing
    \/ CoerceColumn
    \/ SkipColumn
    \/ CleanReturns
    \/ RenameSkipped
    \/ RenameRaises
    \/ RenameColumns
    \/ WriteExcelFails
    \/ WriteExcel

\* Every rename string, every exit.
Spec == Init /\ [][Next]_vars

\* Every table of raw cells.
SpecCoerce == InitCoerce /\ [][Next]_vars

\* Every header.
SpecClean == InitClean /\ [][Next]_vars

\* Well-formed rename strings against headers.
SpecRename == InitRename /\ [][Next]_vars

-----------------------------------------------------------------------------
(* The rename string read by position, without Split: the pairs are the     *)
(* stretches between commas; a pair is well formed when it holds one ":".   *)

CommaCuts(s) == {0, Len(s) + 1} \cup {i \in 1..Len(s) : s[i] = ","}

Segments(s) ==
    {seg \in CommaCuts(s) \X CommaCuts(s) :
        /\ seg[1] < seg[2]
        /\ \A b \in CommaCuts(s) : ~(seg[1] < b /\ b < seg[2])}

ColonsIn(s, seg) == {i \in (seg[1] + 1)..(seg[2] - 1) : s[i] = ":"}

WellFormed(s) == \A seg \in Segments(s) : Cardinality(ColonsIn(s, seg)) = 1

TheColon(s, seg) == CHOOSE i \in ColonsIn(s, seg) : TRUE

OldPart(s, seg) == SubSeq(s, seg[1] + 1, TheColon(s, seg) - 1)

NewPart(s, seg) == SubSeq(s, TheColon(s, seg) + 1, seg[2] - 1)

\* A -r value that is not empty and has a pair without exactly one ":".
MalformedRename ==
    inp.rename_given /\ inp.rename_str # <<>> /\ ~WellFormed(inp.rename_str)

Range(f) == {f[i] : i \in DOMAIN f}

Exited == pc = "exit"

-----------------------------------------------------------------------------
(* Exit codes. *)

\* An input for which the run must end with status 1: missing input file,
\* wrong output extension, read error, malformed rename string.
InputError ==
    \/ ~inp.input_exists
    \/ inp.out_suffix # ".xlsx"
    \/ inp.file.kind # "table"
    \/ MalformedRename

\* C1 as stated: every run ends with exit code 0 or 1 and no other, 0 exactly
\* when the workbook write completed and 1 for each of the handled errors.
C1_ExitCodeZeroOrOne ==
    Exited =>
        /\ exitCode \in {0, 1}
        /\ exitCode = 0 <=> written
        /\ failure # "none" => exitCode = 1

\* C1 amended: every run whose arguments parse ends with exit code 0 or 1, 0
\* exactly when the workbook write completed and 1 for a missing input file, a
\* wrong output extension, a read error, a malformed rename string and a write
\* error; a usage error ends the run with 2 and -h with 0, nothing written.
C1_ExitCodeAfterParse ==
    Exited =>
        /\ inp.argv = "ok" =>
              /\ exitCode \in {0, 1}
              /\ exitCode = 0 <=> written
              /\ InputError => exitCode = 1
              /\ writerInvoked /\ ~written => exitCode = 1
        /\ inp.argv = "usage" => exitCode = 2 /\ ~written
        /\ inp.argv = "help" => exitCode = 0 /\ ~written

\* A run that ended with 1 because the write failed.
C1_Witness ==
    Exited /\ inp.argv = "ok" /\ writerInvoked /\ ~written /\ exitCode = 1

-----------------------------------------------------------------------------
(* Malformed rename string. *)

\* C2: with a non-empty rename string in which a pair does not hold exactly
\* one ":", the conversion of a loaded table ends with the format error and
\* status 1, and df.to_excel is never called.
C2_MalformedRenameAborts ==
    (inp.argv = "ok" /\ MalformedRename) =>
        /\ ~writerInvoked /\ ~written
        /\ pc # "to_excel"
        /\ "write_output" \notin Range(io)
        /\ Exited => exitCode = 1
        /\ (Exited /\ loaded) => failure = "FormatError"

\* "a:a," -- a trailing comma leaves an empty pair; the run ended at the rename.
C2_Witness ==
    /\ Exited /\ loaded
    /\ inp.rename_given /\ inp.rename_str = <<"a", ":", "a", ",">>
    /\ failure = "FormatError"

-----------------------------------------------------------------------------
(* Wrong output extension. *)

BadSuffixRun == inp.argv = "ok" /\ inp.out_suffix # ".xlsx"

\* C3 as stated: with an output path that does not end with .xlsx the run is
\* rejected with exit code 1 before any file I/O: no existence check, no read,
\* no load, no normalization, no write.
C3_NoIoBeforeSuffixRejection ==
    (BadSuffixRun /\ Exited) =>
        /\ exitCode = 1
        /\ io = <<>>
        /\ ~loaded /\ ~writerInvoked

\* C3 amended: with an output path that does not end with .xlsx, a run whose
\* arguments parse ends with exit code 1 without read, load, normalization or
\* write; the one file-system access is main's existence check of the input
\* path, made before the suffix check, and a missing input file is what is
\* reported when both checks fail.
C3_SuffixRejectedAfterStat ==
    BadSuffixRun =>
        /\ ~loaded /\ ~writerInvoked /\ ~written
        /\ columns = <<>> /\ cleaned = <<>> /\ filled = <<>>
        /\ Range(io) \subseteq {"stat_input"}
        /\ Exited =>
              /\ exitCode = 1
              /\ io = <<"stat_input">>
              /\ failure = IF inp.input_exists THEN "BadExtension" ELSE "NotFound"

\* The suffix check rejected the run, after the existence check.
C3_Witness ==
    /\ BadSuffixRun /\ Exited /\ inp.input_exists
    /\ failure = "BadExtension" /\ io = <<"stat_input">>

-----------------------------------------------------------------------------
(* Load failures. *)

HeaderOnly ==
    inp.file.kind = "table" /\ \A i \in 1..Len(inp.file.cols) : inp.file.cols[i] = <<>>

NoNormalizerNoWriter ==
    /\ pc \notin {"clean_names", "fillna", "to_datetime", "rename", "to_excel"}
    /\ cleaned = <<>> /\ filled = <<>>
    /\ ~writerInvoked /\ ~written
    /\ "write_output" \notin Range(io)
    /\ Exited => exitCode \notin {0, -1}

\* C8 as stated: when the input path names no file, or the file is empty (zero
\* bytes, or a header without data rows), or it cannot be parsed, the run ends
\* with a non-zero status, no table reaches the Normalizer and the Writer is
\* never invoked.
C8_LoadFailureLeavesNoOutput ==
    (inp.argv = "ok" /\ (~inp.input_exists \/ inp.file.kind # "table" \/ HeaderOnly))
        => NoNormalizerNoWriter

\* C8 amended: when the input path names no file, or the file holds no columns
\* to parse (zero bytes), or it cannot be parsed, a run whose arguments parse
\* ends with a non-zero status, no table reaches the Normalizer and the Writer
\* is never invoked; a header without data rows is not a load failure.
C8_LoadErrorsAreTerminal ==
    (inp.argv = "ok" /\ (~inp.input_exists \/ inp.file.kind # "table"))
        => NoNormalizerNoWriter

\* pd.read_csv found no columns to parse and the run ended.
C8_Witness ==
    /\ Exited /\ inp.argv = "ok" /\ inp.file.kind = "zero"
    /\ "read_input" \in Range(io)
    /\ exitCode = 1 /\ ~loaded

-----------------------------------------------------------------------------
(* Error lines. *)

\* C9: a run that fails (input not found, wrong output extension, empty input,
\* parse error, malformed rename string, write error) has logged exactly one
\* error line when it exits, and a successful run none.
C9_OneErrorLinePerFailure ==
    (Exited /\ inp.argv = "ok") =>
        /\ exitCode = 0 => errLines = 0
        /\ exitCode # 0 => errLines = 1

-----------------------------------------------------------------------------
(* Date coercion and missing values. *)

\* A cell that holds a date string.
IsDate(c) == c.kind = "str" /\ c.v \in DateStrings

\* clean_dataframe's loop over the columns has ended.
LoopEnded == loaded /\ ci > Len(columns)

\* Column i holds the parsed date-time value of each cell it had after fillna.
HoldsParsedDates(i) ==
    /\ dtype[i] = "datetime64"
    /\ \A r \in 1..Len(filled[i]) : data[i][r] = Timestamp(filled[i][r].v)

\* Column i is, cell for cell, what it was after fillna.
LeftAsFilled(i) == dtype[i] = "object" /\ data[i] = filled[i]

\* C4: after the coercion loop every column either holds the parsed date-time
\* value of every one of its cells, and then every cell was a date, or is
\* identical to its values after the missing-value fill, which is the case
\* whenever a cell is not a date.
C4_AllOrNothing ==
    LoopEnded =>
        \A i \in 1..Len(columns) :
            LET allDates == \A r \in 1..Len(filled[i]) : IsDate(filled[i][r])
            IN  /\ HoldsParsedDates(i) \/ LeftAsFilled(i)
                /\ dtype[i] = "datetime64" => allDates
                /\ ~allDates => LeftAsFilled(i)

\* What the loop does to a column selected as a Series: a cell that is neither
\* a date nor empty leaves the whole column as filled; otherwise every date
\* becomes its Timestamp and every empty cell NaT.
CoercionWholeColumn ==
    LoopEnded =>
        \A i \in 1..Len(columns) :
            IF SelectsFrame(columns, columns[i])
                  \/ \E r \in 1..Len(filled[i]) :
                        ~IsDate(filled[i][r]) /\ filled[i][r] # Str("")
            THEN LeftAsFilled(i)
            ELSE /\ dtype[i] = "datetime64"
                 /\ \A r \in 1..Len(filled[i]) :
                       data[i][r] = IF IsDate(filled[i][r])
                                    THEN Timestamp(filled[i][r].v)
                                    ELSE NaT

\* C7: once df.fillna("") has run, no cell of any column holds a missing
\* value (NaN or NaT), up to the table handed to df.to_excel.
C7_NoMissingAfterFill ==
    (loaded /\ ci >= 1) =>
        \A i \in 1..Len(data) : \A r \in 1..Len(data[i]) : ~IsMissing(data[i][r])

-----------------------------------------------------------------------------
(* Column-name cleaning. *)

NamesCleaned ==
    loaded /\ pc \in {"fillna", "to_datetime", "rename", "to_excel", "exit"}

\* C6: cleaning the column names (strip, then lowercase, then space to
\* underscore) a second time gives the names of the first cleaning, in the
\* same order.
C6_CleanIdempotent ==
    NamesCleaned =>
        /\ Len(cleaned) = Len(inp.file.header)
        /\ CleanColumns(cleaned) = cleaned
        /\ \A i \in 1..Len(cleaned) : CleanName(cleaned[i]) = cleaned[i]

\* The second of two names, "A A", was cleaned to "a_a".
C6_Witness ==
    /\ NamesCleaned
    /\ Len(cleaned) = 2
    /\ inp.file.header[2] = <<"A", " ", "A">>
    /\ cleaned[2] = <<"a", "_", "a">>
    /\ cleaned[1] = inp.file.header[1]

-----------------------------------------------------------------------------
(* Rename. *)

\* The table is at df.to_excel.
AtWriter == pc = "to_excel"

\* The pairs of the rename string whose key is the cleaned name n.
Matching(s, n) == {seg \in Segments(s) : Lower(Strip(OldPart(s, seg))) = n}

LastOf(segs) == CHOOSE seg \in segs : \A o \in segs : o[1] <= seg[1]

\* C5: with a well-formed rename string, a column is renamed exactly when its
\* cleaned name is the trimmed, lowercased old part of a pair, to the trimmed
\* new part of that pair (the last such pair), case unchanged; the other
\* columns keep their names; order and cells are unchanged (the cells are text,
\* which the date loop leaves as filled); an empty string renames nothing.
C5_RenameApplied ==
    AtWriter =>
        /\ Len(columns) = Len(cleaned)
        /\ data = filled
        /\ ~Truthy(inp.rename_given, inp.rename_str) => columns = cleaned
        /\ Truthy(inp.rename_given, inp.rename_str) =>
              /\ WellFormed(inp.rename_str)
              /\ \A i \in 1..Len(cleaned) :
                    LET m == Matching(inp.rename_str, cleaned[i])
                    IN  IF m = {}
                        THEN columns[i] = cleaned[i]
                        ELSE columns[i] = Strip(NewPart(inp.rename_str, LastOf(m)))

\* Cleaned columns ["a","b"] with " A :N" give ["N","b"].
C5_Witness ==
    /\ AtWriter
    /\ inp.rename_given
    /\ inp.rename_str = <<" ", "A", " ", ":", "N">>
    /\ cleaned = <<<<"a">>, <<"b">>>>
    /\ columns = <<<<"N">>, <<"b">>>>

\* C10: for a table loaded with pairwise distinct header names and a
\* well-formed rename string, the table handed to df.to_excel has pairwise
\* distinct column names.
C10_UniqueNames ==
    (AtWriter /\ Distinct(inp.file.header)) => Distinct(columns)

====
